---------------------------- MODULE Spec2Model ----------------------------
(***************************************************************************)
(* Blackjack (milanfusco/BlackJack): the round engine of playRound, the    *)
(* hand scoring of Hand and the statistics ledger of GameStats, as a state *)
(* machine.  One action per step of main/playRound; the pure functions of  *)
(* Hand.cpp and GameFunctions.cpp are operators of the same name.          *)
(*                                                                         *)
(* The shoe: shuffleDecks leaves the 312 cards in an arbitrary order, so   *)
(* the card a draw returns is a nondeterministic choice; the model keeps   *)
(* the cursor currentCard and reveals each card when it is drawn.  Cards   *)
(* are drawn from a small set of ranks in one suit; no run of the model    *)
(* puts more than SUIT_COUNT * NUMBER_OF_DECKS cards of one rank in the    *)
(* hands between two shuffles, and a card a full hand rejects is kept      *)
(* nowhere, so every run is a run of a real shoe.                          *)
(***************************************************************************)
EXTENDS Integers, Sequences, FiniteSets, TLC

\* ---------------------------------------------------------------- constants.h
MAX_PLAYER_COUNT == 3
SUIT_COUNT == 4
RANK_COUNT == 13
DECK_SIZE == 52
NUMBER_OF_DECKS == 6
STARTING_CARDS == 2
RESHUFFLE_THRESHOLD == 75
BLACKJACK == 21
FACE_CARD_VALUE == 10
ACE_HIGH == 11
ACE_LOW == 1
DEALER_STAND == 17
\* Hand::MAX_HAND_SIZE (Hand.h): inside Hand's member functions this static
\* member hides the global MAX_HAND_SIZE (12) of constants.h.
MAX_HAND_SIZE == 11

\* ---------------------------------------------------------------- bounds
\* 'hit' decisions the players take in one round (all players together).
MaxHits == 1
\* Player-round settlements in one session: a further round is started only
\* while numPlayers * (rounds played + 1) stays within this bound.
MaxSettlements == 2

\* Ranks a draw reveals in Spec: the ace and a ten-valued card give every
\* score from 2 up, naturals, soft and hard totals, busts.
Ranks == {"A", "K"}

\* Ranks of the dealer-capacity study (SpecStall).
StallRanks == {"A", "6"}

\* Cards of any rank a hand is given in the hand study (SpecHand) before it
\* is given aces only.
MaxHandLen == 3

\* cardRanks and suits of Shoe::initializeDecks.
cardRanks == <<"A", "K", "Q", "J", "T", "9", "8", "7", "6", "5", "4", "3", "2">>

suits == <<"C", "D", "H", "S">>

\* The shoe of the shoe study (SpecShoe): 2 decks of the three aces of
\* clubs, hearts and spades.
StudySuits == <<"C", "H", "S">>

StudyRanks == <<"A">>

\* RESHUFFLE_THRESHOLD of the shoe study.
StudyThreshold == 2

\* ---------------------------------------------------------------- Card, Hand
EmptyCard == [rank |-> "", suit |-> ""]

\* A card of the shoe, suit already converted by convertCardToSymbol.
ShoeCard(r) == [rank |-> r, suit |-> "spade"]

ShoeCards(RS) == {ShoeCard(r) : r \in RS}

\* Hand::Hand(ownerName): numCards 0, every slot a default-constructed Card.
NewHand == [numCards |-> 0, card |-> [k \in 1..MAX_HAND_SIZE |-> EmptyCard]]

\* cardValues[rank] of evaluateHandScore; operator[] of the map yields 0 for
\* a rank that is no key (the empty rank of an unused slot).
CardValue(r) ==
    CASE r = "A" -> ACE_HIGH
      [] r \in {"K", "Q", "J"} -> FACE_CARD_VALUE
      [] r = "T" -> 10
      [] r = "9" -> 9
      [] r = "8" -> 8
      [] r = "7" -> 7
      [] r = "6" -> 6
      [] r = "5" -> 5
      [] r = "4" -> 4
      [] r = "3" -> 3
      [] r = "2" -> 2
      [] OTHER -> 0

\* adjustScoreForAces that counts every ace low as soon as the total is
\* over 21, instead of one ace at a time.
adjustScoreForAcesAll(score, aceCount) ==
    IF score > BLACKJACK /\ aceCount > 0
    THEN score - (ACE_HIGH - ACE_LOW) * aceCount
    ELSE score

RECURSIVE adjustScoreForAces(_, _)
adjustScoreForAces(score, aceCount) ==
    IF score > BLACKJACK /\ aceCount > 0
    THEN adjustScoreForAces(score - (ACE_HIGH - ACE_LOW), aceCount - 1)
    ELSE score

\* The loop of evaluateHandScore runs over the whole array card[], slots
\* k..MAX_HAND_SIZE here.
RECURSIVE SumSlots(_, _)
SumSlots(cards, k) ==
    IF k > MAX_HAND_SIZE THEN 0
    ELSE CardValue(cards[k].rank) + SumSlots(cards, k + 1)

RECURSIVE AceSlots(_, _)
AceSlots(cards, k) ==
    IF k > MAX_HAND_SIZE THEN 0
    ELSE (IF cards[k].rank = "A" THEN 1 ELSE 0) + AceSlots(cards, k + 1)

\* A scorer that decides each ace when it meets it, slot after slot: 11 if
\* the running total stays within 21, else 1.
RECURSIVE RunningScore(_, _, _)
RunningScore(cards, k, score) ==
    IF k > MAX_HAND_SIZE THEN score
    ELSE IF cards[k].rank = "A"
         THEN RunningScore(cards, k + 1,
                 IF score + ACE_HIGH <= BLACKJACK THEN score + ACE_HIGH ELSE score + ACE_LOW)
         ELSE RunningScore(cards, k + 1, score + CardValue(cards[k].rank))

evaluateHandScoreInOrder(hand) == RunningScore(hand.card, 1, 0)

evaluateHandScore(hand) ==
    adjustScoreForAces(SumSlots(hand.card, 1), AceSlots(hand.card, 1))

\* addCardToHand that tests the rank only: a card with no suit is appended.
addCardToHandAnySuit(hand, c) ==
    IF hand.numCards < MAX_HAND_SIZE - 1 /\ c.rank # ""
    THEN [numCards |-> hand.numCards + 1,
          card |-> [hand.card EXCEPT ![hand.numCards + 1] = c]]
    ELSE hand

addCardToHand(hand, c) ==
    IF hand.numCards < MAX_HAND_SIZE - 1 /\ c.rank # "" /\ c.suit # ""
    THEN [numCards |-> hand.numCards + 1,
          card |-> [hand.card EXCEPT ![hand.numCards + 1] = c]]
    ELSE hand

isBusted(hand) == evaluateHandScore(hand) > BLACKJACK

\* isBlackjack without the test of the card count: any 21 is a natural.
isBlackjackAnyCount(hand) == evaluateHandScore(hand) = BLACKJACK

isBlackjack(hand) == hand.numCards = 2 /\ evaluateHandScore(hand) = BLACKJACK

\* ---------------------------------------------------------------- Shoe
ShoeSize == DECK_SIZE * NUMBER_OF_DECKS

\* drawCardFromShoe that never reshuffles: the cursor only advances.
drawCardFromShoeOnwards(cur) == cur + 1

\* The cursor after drawCardFromShoe entered with cursor cur.
drawCardFromShoe(cur) ==
    IF cur >= ShoeSize - RESHUFFLE_THRESHOLD THEN 1
    ELSE IF cur < ShoeSize THEN cur + 1
    ELSE 1

\* The symbols of the suits: "club" for the club sign, and so on.
convertCardToSymbol(c) ==
    IF c.suit = "S" THEN [c EXCEPT !.suit = "spade"]
    ELSE IF c.suit = "H" THEN [c EXCEPT !.suit = "heart"]
    ELSE IF c.suit = "C" THEN [c EXCEPT !.suit = "club"]
    ELSE IF c.suit = "D" THEN [c EXCEPT !.suit = "diamond"]
    ELSE c

\* The array initializeDecks fills for nDecks decks of the suits ss and the
\* ranks rs: deck by deck, suit by suit, rank by rank.
initializeDecks(nDecks, ss, rs) ==
    [n \in 1..(nDecks * Len(ss) * Len(rs)) |->
        LET rank == (n - 1) % Len(rs)
            suit == ((n - 1) \div Len(rs)) % Len(ss)
        IN  convertCardToSymbol([rank |-> rs[rank + 1], suit |-> ss[suit + 1]])]

\* Swap that copies one way only: cs[j] is written to cs[i] and cs[i] lost.
SwapCopy(cs, i, j) == [cs EXCEPT ![i] = cs[j]]

\* std::swap(cards[i], cards[randomIndex])
Swap(cs, i, j) == [cs EXCEPT ![i] = cs[j], ![j] = cs[i]]

\* The arrays passes i.. of the loop of shuffleDecks can leave of the arrays
\* of S (all of length n): pass i swaps cards[i] with cards[rand() % n].
RECURSIVE ShufflePasses(_, _, _)
ShufflePasses(S, i, n) ==
    IF i > n THEN S
    ELSE ShufflePasses({Swap(cs, i, j) : cs \in S, j \in 1..n}, i + 1, n)

\* The arrays shuffleDecks can leave of cs; the cursor is not touched.
shuffleDecks(cs) == ShufflePasses({cs}, 1, Len(cs))

\* The outcomes of a branch of drawCardFromShoe that reshuffles: any array
\* shuffleDecks can leave, the cursor at 1, the card at index 0 returned.
Reshuffled(cs, br) ==
    {[cards |-> s, currentCard |-> 1, card |-> s[1], branch |-> br] : s \in shuffleDecks(cs)}

\* The outcome of the branch that returns cards[currentCard++]; a read past
\* the end of the array returns whatever is there, an empty card here.
NextCard(cs, cur) ==
    [cards |-> cs, currentCard |-> cur + 1,
     card |-> IF cur + 1 \in DOMAIN cs THEN cs[cur + 1] ELSE EmptyCard,
     branch |-> "next"]

\* drawCard that reshuffles only past the threshold (> for >=).
drawCardPastThreshold(cs, cur, threshold) ==
    IF cur > Len(cs) - threshold
    THEN Reshuffled(cs, "threshold")
    ELSE {NextCard(cs, cur)}

\* drawCard without the threshold rule: the shoe is drawn to its end.
drawCardToTheEnd(cs, cur, threshold) ==
    IF cur < Len(cs)
    THEN {NextCard(cs, cur)}
    ELSE Reshuffled(cs, "exhausted")

\* drawCardFromShoe on the array cs with cursor cur: the outcomes, each the
\* array and the cursor it leaves, the card it returns and the branch taken
\* ("exhausted" is the branch that prints "No more cards to deal").
drawCard(cs, cur, threshold) ==
    IF cur >= Len(cs) - threshold
    THEN Reshuffled(cs, "threshold")
    ELSE IF cur < Len(cs)
    THEN {NextCard(cs, cur)}
    ELSE Reshuffled(cs, "exhausted")

\* ---------------------------------------------------------------- GameStats
GameStats(n) ==
    [playerWins |-> [i \in 1..n |-> 0],
     playerLosses |-> [i \in 1..n |-> 0],
     playerTies |-> [i \in 1..n |-> 0],
     playerBlackjacks |-> [i \in 1..n |-> 0],
     playerBlackjack |-> [i \in 1..n |-> FALSE],
     dealerBlackjack |-> FALSE,
     dealerWins |-> 0,
     dealerBlackjacks |-> 0,
     totalRounds |-> 0]

VARIABLES
    numPlayers,   \* main: numPlayers = getPlayerCount()
    stats,        \* main: GameStats stats
    currentCard,  \* Shoe::currentCard of main's deck
    hands,        \* playRound: hands (players 1..n, dealer n+1); <<>> between rounds
    pc,           \* the statement main/playRound is at
    dealt,        \* dealCards: cards dealt so far in the two nested loops
    turn,         \* playRound: the hand the player loop is at
    roundBase,    \* history: stats as they were when the round was entered
    cards,        \* Shoe::cards of main's deck where the array is modelled
                  \* (SpecShoe); <<>> where a draw reveals any card
    drawn,        \* the card the last call of drawCardFromShoe returned, where
                  \* the array is modelled
    decision      \* getUserDecision: the token last read from the input, as
                  \* typed, where the input is modelled (SpecPrompt); <<>>
                  \* where only its outcome is

vars == <<numPlayers, stats, currentCard, hands, pc, dealt, turn, roundBase, cards, drawn, decision>>

Players == 1..numPlayers
Dealer == numPlayers + 1
dealerHand == hands[Dealer]

\* ---------------------------------------------------------------- round logic
\* compareHands with the last two branches merged: equal scores count as a
\* win of the player.
compareHandsTieWins(playerHand, dHand, st, i) ==
    LET playerScore == evaluateHandScore(playerHand)
        dealerScore == evaluateHandScore(dHand)
    IN  IF isBusted(playerHand)
        THEN [st EXCEPT !.playerLosses[i] = @ + 1]
        ELSE IF isBlackjack(playerHand) /\ ~isBlackjack(dHand)
        THEN [st EXCEPT !.playerWins[i] = @ + 1, !.playerBlackjacks[i] = @ + 1]
        ELSE IF dealerScore > playerScore /\ ~isBusted(dHand)
        THEN [st EXCEPT !.playerLosses[i] = @ + 1, !.dealerWins = @ + 1]
        ELSE [st EXCEPT !.playerWins[i] = @ + 1]

compareHands(playerHand, dHand, st, i) ==
    LET playerScore == evaluateHandScore(playerHand)
        dealerScore == evaluateHandScore(dHand)
    IN  IF isBusted(playerHand)
        THEN [st EXCEPT !.playerLosses[i] = @ + 1]
        ELSE IF isBlackjack(playerHand) /\ ~isBlackjack(dHand)
        THEN [st EXCEPT !.playerWins[i] = @ + 1, !.playerBlackjacks[i] = @ + 1]
        ELSE IF dealerScore > playerScore /\ ~isBusted(dHand)
        THEN [st EXCEPT !.playerLosses[i] = @ + 1, !.dealerWins = @ + 1]
        ELSE IF playerScore > dealerScore
        THEN [st EXCEPT !.playerWins[i] = @ + 1]
        ELSE IF playerScore = dealerScore
        THEN [st EXCEPT !.playerTies[i] = @ + 1]
        ELSE st

\* shouldEndRoundEarly that never reports an early end: the turns are played
\* after a dealer's natural that no player matches.
shouldEndRoundEarlyNever(st) == FALSE

shouldEndRoundEarly(st) ==
    IF st.dealerBlackjack
    THEN ~(\E i \in DOMAIN st.playerBlackjack : st.playerBlackjack[i])
    ELSE FALSE

\* checkBlackjack assigning this round's tie and loss instead of adding it:
\* the counts of the earlier rounds are lost.
checkBlackjackAssigns(hs, st) ==
    LET n == Len(hs) - 1
        dbj == isBlackjack(hs[Len(hs)])
        flags == [i \in 1..n |-> isBlackjack(hs[i])]
        any == \E i \in 1..n : flags[i]
    IN  IF dbj
        THEN [st EXCEPT
                !.dealerBlackjack = TRUE,
                !.playerBlackjack = flags,
                !.playerTies = [i \in 1..n |-> IF flags[i] THEN 1 ELSE 0],
                !.playerLosses = [i \in 1..n |-> IF flags[i] THEN 0 ELSE 1],
                !.dealerWins = IF any THEN @ ELSE @ + 1]
        ELSE [st EXCEPT !.dealerBlackjack = FALSE, !.playerBlackjack = flags]

\* checkBlackjack that raises the players' flags and never lowers them: a
\* flag set in an earlier round stays set.
checkBlackjackKeepsFlags(hs, st) ==
    LET n == Len(hs) - 1
        dbj == isBlackjack(hs[Len(hs)])
        flags == [i \in 1..n |-> st.playerBlackjack[i] \/ isBlackjack(hs[i])]
        any == \E i \in 1..n : flags[i]
    IN  IF dbj
        THEN [st EXCEPT
                !.dealerBlackjack = TRUE,
                !.playerBlackjack = flags,
                !.playerTies = [i \in 1..n |-> IF flags[i] THEN @[i] + 1 ELSE @[i]],
                !.playerLosses = [i \in 1..n |-> IF flags[i] THEN @[i] ELSE @[i] + 1],
                !.dealerWins = IF any THEN @ ELSE @ + 1]
        ELSE [st EXCEPT !.dealerBlackjack = FALSE, !.playerBlackjack = flags]

checkBlackjack(hs, st) ==
    LET n == Len(hs) - 1
        dbj == isBlackjack(hs[Len(hs)])
        flags == [i \in 1..n |-> isBlackjack(hs[i])]
        any == \E i \in 1..n : flags[i]
    IN  IF dbj
        THEN [st EXCEPT
                !.dealerBlackjack = TRUE,
                !.playerBlackjack = flags,
                !.playerTies = [i \in 1..n |-> IF flags[i] THEN @[i] + 1 ELSE @[i]],
                !.playerLosses = [i \in 1..n |-> IF flags[i] THEN @[i] ELSE @[i] + 1],
                !.dealerWins = IF any THEN @ ELSE @ + 1]
        ELSE [st EXCEPT !.dealerBlackjack = FALSE, !.playerBlackjack = flags]

\* determineWinner, lines 264-276: the dealer's natural.
SettleDealerBlackjack(hs, st) ==
    LET dHand == hs[Len(hs)]
        allPlayersNoBlackjack ==
            ~(\E i \in DOMAIN st.playerBlackjack : st.playerBlackjack[i])
    IN  IF isBlackjack(dHand)
        THEN [st EXCEPT
                !.dealerBlackjacks = @ + 1,
                !.dealerWins = IF allPlayersNoBlackjack /\ ~isBusted(dHand)
                               THEN @ + 1 ELSE @]
        ELSE st

\* SettlePlayer that counts a player's natural also when the dealer holds
\* one: the push is credited as a blackjack.
SettlePlayerCreditsPush(hs, st, i) ==
    LET dHand == hs[Len(hs)]
    IN  IF st.playerBlackjack[i]
        THEN IF ~isBlackjack(dHand)
             THEN [st EXCEPT !.playerWins[i] = @ + 1, !.playerBlackjacks[i] = @ + 1]
             ELSE [st EXCEPT !.playerTies[i] = @ + 1, !.playerBlackjacks[i] = @ + 1]
        ELSE compareHands(hs[i], dHand, st, i)

\* determineWinner, the body of the loop of lines 278-289 for player i.
SettlePlayer(hs, st, i) ==
    LET dHand == hs[Len(hs)]
    IN  IF st.playerBlackjack[i]
        THEN IF ~isBlackjack(dHand)
             THEN [st EXCEPT !.playerWins[i] = @ + 1, !.playerBlackjacks[i] = @ + 1]
             ELSE [st EXCEPT !.playerTies[i] = @ + 1]
        ELSE compareHands(hs[i], dHand, st, i)

\* The loop of lines 278-289, players i..n in order.
RECURSIVE SettlePlayers(_, _, _)
SettlePlayers(hs, st, i) ==
    IF i > Len(hs) - 1 THEN st
    ELSE SettlePlayers(hs, SettlePlayer(hs, st, i), i + 1)

\* SettleDealerBusted without the test of the natural flag: a player holding
\* a natural is credited a second win.
SettleDealerBustedAll(hs, st) ==
    LET n == Len(hs) - 1
    IN  IF isBusted(hs[Len(hs)])
        THEN [st EXCEPT
                !.dealerWins = @ + 1,
                !.playerWins = [i \in 1..n |->
                    IF ~isBusted(hs[i]) THEN @[i] + 1 ELSE @[i]]]
        ELSE st

\* determineWinner, lines 291-298: the dealer busted.
SettleDealerBusted(hs, st) ==
    LET n == Len(hs) - 1
    IN  IF isBusted(hs[Len(hs)])
        THEN [st EXCEPT
                !.dealerWins = @ + 1,
                !.playerWins = [i \in 1..n |->
                    IF ~isBusted(hs[i]) /\ ~st.playerBlackjack[i]
                    THEN @[i] + 1 ELSE @[i]]]
        ELSE st

\* determineWinner without line 299: the round is not counted.
determineWinnerUncounted(hs, st) ==
    SettleDealerBusted(hs, SettlePlayers(hs, SettleDealerBlackjack(hs, st), 1))

determineWinner(hs, st) ==
    LET s1 == SettleDealerBlackjack(hs, st)
        s2 == SettlePlayers(hs, s1, 1)
        s3 == SettleDealerBusted(hs, s2)
    IN  [s3 EXCEPT !.totalRounds = @ + 1]

initializeGameHands(n) == [i \in 1..(n + 1) |-> NewHand]

\* dealerDraws with <= for <: the dealer draws on 17.
dealerDrawsOn17(hand) == evaluateHandScore(hand) <= DEALER_STAND

\* playRound line 340: the condition of the dealer's loop.
dealerDraws(hand) == evaluateHandScore(hand) < DEALER_STAND

\* DealTarget with the two loops of dealCards exchanged: both cards to one
\* hand before the next hand is served.
DealTargetHandFirst(k, n) == (k \div STARTING_CARDS) + 1

\* The hand dealCards gives card number k (0-based) of the deal to.
DealTarget(k, n) == (k % (n + 1)) + 1

\* NextPrompt without the test of line 333: a hand holding a natural is
\* prompted like any other.
NextPromptNaturalToo(hs, i) == IF i >= Len(hs) THEN Len(hs) ELSE i

\* The player loop of playRound, lines 332-337, from hand i on: the first
\* hand that is a player's and holds no natural is prompted; the dealer's
\* hand ends the loop.
RECURSIVE NextPrompt(_, _)
NextPrompt(hs, i) ==
    IF i >= Len(hs) THEN Len(hs)
    ELSE IF ~isBlackjack(hs[i]) THEN i
    ELSE NextPrompt(hs, i + 1)

AfterTurn(hs, i) == IF NextPrompt(hs, i) < Len(hs) THEN "hitOrStand" ELSE "dealerTurn"

\* Cards the players hold beyond the initial deal.
RECURSIVE HitsTaken(_, _)
HitsTaken(hs, i) ==
    IF i >= Len(hs) THEN 0
    ELSE (hs[i].numCards - STARTING_CARDS) + HitsTaken(hs, i + 1)

\* ---------------------------------------------------------------- actions
InitWith(P) ==
    /\ numPlayers \in P
    /\ stats = GameStats(numPlayers)
    /\ currentCard = 0
    /\ hands = <<>>
    /\ pc = "playRound"
    /\ dealt = 0
    /\ turn = 0
    /\ roundBase = stats
    /\ cards = <<>>
    /\ drawn = EmptyCard
    /\ decision = <<>>

Init == InitWith(1..MAX_PLAYER_COUNT)

\* playRound line 325
StartRound ==
    /\ pc = "playRound"
    /\ hands' = initializeGameHands(numPlayers)
    /\ dealt' = 0
    /\ turn' = 0
    /\ roundBase' = stats
    /\ pc' = "dealCards"
    /\ UNCHANGED <<numPlayers, stats, currentCard, cards, drawn, decision>>

\* dealCards: one pass of the inner loop (drawFromShoe into the next hand)
DealCard(RS) ==
    /\ pc = "dealCards"
    /\ \E c \in ShoeCards(RS) :
          hands' = [hands EXCEPT ![DealTarget(dealt, numPlayers)] = addCardToHand(@, c)]
    /\ currentCard' = drawCardFromShoe(currentCard)
    /\ dealt' = dealt + 1
    /\ pc' = IF dealt + 1 = STARTING_CARDS * (numPlayers + 1)
             THEN "checkBlackjack" ELSE "dealCards"
    /\ UNCHANGED <<numPlayers, stats, turn, roundBase, cards, drawn, decision>>

\* playRound lines 327-331: checkBlackjack, shouldEndRoundEarly
CheckBlackjack ==
    /\ pc = "checkBlackjack"
    /\ stats' = checkBlackjack(hands, stats)
    /\ IF shouldEndRoundEarly(stats')
       THEN /\ pc' = "determineWinner"
            /\ turn' = turn
       ELSE /\ pc' = AfterTurn(hands, 1)
            /\ turn' = NextPrompt(hands, 1)
    /\ UNCHANGED <<numPlayers, currentCard, hands, dealt, roundBase, cards, drawn, decision>>

\* hitOrStand, lines 240-245: the decision is "hit"
HitCard(RS, limit) ==
    /\ pc = "hitOrStand"
    /\ HitsTaken(hands, 1) < limit
    /\ \E c \in ShoeCards(RS) :
          /\ hands' = [hands EXCEPT ![turn] = addCardToHand(@, c)]
          /\ IF evaluateHandScore(hands'[turn]) > BLACKJACK
             THEN /\ pc' = AfterTurn(hands', turn + 1)
                  /\ turn' = NextPrompt(hands', turn + 1)
             ELSE /\ pc' = "hitOrStand"
                  /\ turn' = turn
    /\ currentCard' = drawCardFromShoe(currentCard)
    /\ UNCHANGED <<numPlayers, stats, dealt, roundBase, cards, drawn>>

\* hitOrStand: the decision is "hit"; the token read is not recorded
Hit(RS, limit) == HitCard(RS, limit) /\ UNCHANGED decision

\* hitOrStand, lines 246-247: the decision is "stand"
StandTurn ==
    /\ pc = "hitOrStand"
    /\ pc' = AfterTurn(hands, turn + 1)
    /\ turn' = NextPrompt(hands, turn + 1)
    /\ UNCHANGED <<numPlayers, stats, currentCard, hands, dealt, roundBase, cards, drawn>>

\* hitOrStand: the decision is "stand"; the token read is not recorded
Stand == StandTurn /\ UNCHANGED decision

\* playRound lines 340-342: one pass of the dealer's loop
DealerDraw(RS) ==
    /\ pc = "dealerTurn"
    /\ dealerDraws(dealerHand)
    /\ \E c \in ShoeCards(RS) :
          hands' = [hands EXCEPT ![Dealer] = addCardToHand(@, c)]
    /\ currentCard' = drawCardFromShoe(currentCard)
    /\ UNCHANGED <<numPlayers, stats, pc, dealt, turn, roundBase, cards, drawn, decision>>

\* playRound line 340: the dealer's loop ends
DealerStand ==
    /\ pc = "dealerTurn"
    /\ ~dealerDraws(dealerHand)
    /\ pc' = "determineWinner"
    /\ UNCHANGED <<numPlayers, stats, currentCard, hands, dealt, turn, roundBase, cards, drawn, decision>>

\* playRound lines 344-345
DetermineWinner ==
    /\ pc = "determineWinner"
    /\ stats' = determineWinner(hands, stats)
    /\ pc' = "collectCards"
    /\ UNCHANGED <<numPlayers, currentCard, hands, dealt, turn, roundBase, cards, drawn, decision>>

\* collectCards that clears the hands and leaves the shoe alone.
CollectCardsKeepsShoe ==
    /\ pc = "collectCards"
    /\ hands' = <<>>
    /\ dealt' = 0
    /\ turn' = 0
    /\ roundBase' = stats
    /\ pc' = "playAgain"
    /\ UNCHANGED <<numPlayers, stats, currentCard, cards, drawn, decision>>

\* playRound line 346 and the return: collectCards resets the cursor and
\* shuffles; the hands go out of scope.
CollectCards ==
    /\ pc = "collectCards"
    /\ currentCard' = 0
    /\ hands' = <<>>
    /\ dealt' = 0
    /\ turn' = 0
    /\ roundBase' = stats
    /\ pc' = "playAgain"
    /\ cards' \in shuffleDecks(cards)
    /\ UNCHANGED <<numPlayers, stats, drawn, decision>>

\* main lines 31-38: the answer is yes
PlayAgain ==
    /\ pc = "playAgain"
    /\ numPlayers * (stats.totalRounds + 1) <= MaxSettlements
    /\ pc' = "playRound"
    /\ UNCHANGED <<numPlayers, stats, currentCard, hands, dealt, turn, roundBase, cards, drawn, decision>>

\* main lines 31-40: any other answer
Quit ==
    /\ pc = "playAgain"
    /\ pc' = "exit"
    /\ UNCHANGED <<numPlayers, stats, currentCard, hands, dealt, turn, roundBase, cards, drawn, decision>>

Next ==
    \/ StartRound
    \/ DealCard(Ranks)
    \/ CheckBlackjack
    \/ Hit(Ranks, MaxHits)
    \/ Stand
    \/ DealerDraw(Ranks)
    \/ DealerStand
    \/ DetermineWinner
    \/ CollectCards
    \/ PlayAgain
    \/ Quit

Spec == Init /\ [][Next]_vars

\* The dealer-capacity study: one player, a shoe whose first cards are aces
\* and sixes.  The program is sequential and every prompt is answered, so
\* each step that can be taken is taken: weak fairness of the next step.
InitStall == InitWith({1})

NextStall ==
    \/ StartRound
    \/ DealCard(StallRanks)
    \/ CheckBlackjack
    \/ Hit(StallRanks, MaxHits)
    \/ Stand
    \/ DealerDraw(StallRanks)
    \/ DealerStand
    \/ DetermineWinner
    \/ CollectCards
    \/ Quit

SpecStall == InitStall /\ [][NextStall]_vars /\ WF_vars(NextStall)

\* The hand-capacity study: one player who may hit as often as the prompt
\* lets them (a hand holds fewer extra cards than AnyHits), one round.
AnyHits == ShoeSize

InitSolo == InitWith({1})

NextSolo ==
    \/ StartRound
    \/ DealCard(Ranks)
    \/ CheckBlackjack
    \/ Hit(Ranks, AnyHits)
    \/ Stand
    \/ DealerDraw(Ranks)
    \/ DealerStand
    \/ DetermineWinner
    \/ CollectCards
    \/ Quit

SpecSolo == InitSolo /\ [][NextSolo]_vars

\* The hand study: one Hand on its own (hands[1], no player), given one
\* card after the other through addCardToHand: up to MaxHandLen cards of any
\* rank, and then aces as long as fewer than MaxHandLen of its cards are no
\* aces; dealt counts the cards offered, one more than the array has slots
\* at most.
InitHand ==
    /\ numPlayers = 0
    /\ stats = GameStats(0)
    /\ currentCard = 0
    /\ hands = <<NewHand>>
    /\ pc = "hand"
    /\ dealt = 0
    /\ turn = 0
    /\ roundBase = stats
    /\ cards = <<>>
    /\ drawn = EmptyCard
    /\ decision = <<>>

AddCard(RS) ==
    /\ pc = "hand"
    /\ dealt <= MAX_HAND_SIZE
    /\ \E c \in ShoeCards(RS) : hands' = <<addCardToHand(hands[1], c)>>
    /\ dealt' = dealt + 1
    /\ UNCHANGED <<numPlayers, stats, currentCard, pc, turn, roundBase, cards, drawn, decision>>

AddAnyCard ==
    /\ hands[1].numCards < MaxHandLen
    /\ AddCard({cardRanks[k] : k \in DOMAIN cardRanks})

\* Cards of the hand that are no aces.
OtherCards(h) == Cardinality({k \in 1..h.numCards : h.card[k].rank # "A"})

AddAce == OtherCards(hands[1]) < MaxHandLen /\ AddCard({"A"})

NextHand == AddAnyCard \/ AddAce

SpecHand == InitHand /\ [][NextHand]_vars

\* The shoe study: the shoe with its array, scaled down to StudyShoe, and
\* rounds reduced to their draws: any number of calls of drawCardFromShoe
\* (dealt counts them, up to one more than the shoe has cards), then
\* collectCards.
StudyShoe == initializeDecks(2, StudySuits, StudyRanks)

\* Shoe::Shoe: currentCard = 0, initializeDecks, shuffleDecks.
InitShoe ==
    /\ numPlayers = 0
    /\ stats = GameStats(0)
    /\ currentCard = 0
    /\ cards \in shuffleDecks(StudyShoe)
    /\ drawn = EmptyCard
    /\ decision = <<>>
    /\ hands = <<>>
    /\ pc = "drawCardFromShoe"
    /\ dealt = 0
    /\ turn = 0
    /\ roundBase = stats

DrawCard ==
    /\ pc = "drawCardFromShoe"
    /\ dealt <= Len(cards)
    /\ \E d \in drawCard(cards, currentCard, StudyThreshold) :
          /\ cards' = d.cards
          /\ currentCard' = d.currentCard
          /\ drawn' = d.card
    /\ dealt' = dealt + 1
    /\ UNCHANGED <<numPlayers, stats, hands, pc, turn, roundBase, decision>>

\* The round's draws are over: playRound reaches line 346.
RoundOver ==
    /\ pc = "drawCardFromShoe"
    /\ pc' = "collectCards"
    /\ UNCHANGED <<numPlayers, stats, currentCard, hands, dealt, turn, roundBase, cards, drawn, decision>>

\* main's loop: the next round.
NextRound ==
    /\ pc = "playAgain"
    /\ pc' = "drawCardFromShoe"
    /\ UNCHANGED <<numPlayers, stats, currentCard, hands, dealt, turn, roundBase, cards, drawn, decision>>

NextShoe == DrawCard \/ RoundOver \/ CollectCards \/ NextRound

SpecShoe == InitShoe /\ [][NextShoe]_vars

\* ---------------------------------------------------------------- properties
\* The round's ledger is read where determineWinner has returned and the
\* hands still hold their final cards.
RoundSettled == pc = "collectCards"

Gain(field, i) == stats[field][i] - roundBase[field][i]

DealerWinsGain == stats.dealerWins - roundBase.dealerWins

DealerBlackjacksGain == stats.dealerBlackjacks - roundBase.dealerBlackjacks

\* A hand that holds a natural at settlement was dealt it, and a hand dealt
\* a natural is never given another card.
DealerNatural == isBlackjack(dealerHand)

PlayerNatural(i) == isBlackjack(hands[i])

Score(h) == evaluateHandScore(h)

\* C1: every completed round increments exactly one of playerWins[i],
\* playerLosses[i], playerTies[i], by exactly 1, for every player i; so the
\* three always add up to totalRounds once a round is settled.
C1_OneOutcomePerRound ==
    /\ RoundSettled =>
          \A i \in Players :
             /\ Gain("playerWins", i) + Gain("playerLosses", i) + Gain("playerTies", i) = 1
             /\ Gain("playerWins", i) >= 0
             /\ Gain("playerLosses", i) >= 0
             /\ Gain("playerTies", i) >= 0
    /\ pc \in {"collectCards", "playAgain", "playRound", "exit"} =>
          \A i \in Players :
             stats.playerWins[i] + stats.playerLosses[i] + stats.playerTies[i]
                = stats.totalRounds

\* C2: when the dealer and player i both hold a natural, the round leaves
\* player i with one more tie, no more wins or losses, and no blackjack
\* counter of player i or of the dealer is incremented.
C2_NaturalVsNaturalIsOneTie ==
    RoundSettled /\ DealerNatural =>
       \A i \in Players :
          PlayerNatural(i) =>
             /\ Gain("playerTies", i) = 1
             /\ Gain("playerWins", i) = 0
             /\ Gain("playerLosses", i) = 0
             /\ Gain("playerBlackjacks", i) = 0
             /\ DealerBlackjacksGain = 0

\* C3: when the dealer is dealt a natural the round is settled early whoever
\* else holds a natural: no player is prompted, the dealer's turn is not
\* entered and no card is drawn beyond the 2 cards per participant.
C3_DealerNaturalSettlesEarly ==
    (hands # <<>> /\ pc # "dealCards" /\ DealerNatural) =>
       /\ pc \notin {"hitOrStand", "dealerTurn"}
       /\ currentCard = STARTING_CARDS * (numPlayers + 1)
       /\ \A j \in 1..Dealer : hands[j].numCards = STARTING_CARDS

\* C4: in a round where the dealer holds a natural, dealerWins grows by 1
\* when no player holds a natural and not at all when some player does.
C4_DealerNaturalWinsOnce ==
    RoundSettled /\ DealerNatural =>
       DealerWinsGain = (IF \E i \in Players : PlayerNatural(i) THEN 0 ELSE 1)

\* C5: a player who busts against a dealer standing on 17..21 without a
\* natural is recorded one loss, the dealer is recorded a win, and the
\* player's ties and blackjacks and the dealer's blackjacks are untouched.
C5_BustIsLossAndDealerWin ==
    (RoundSettled /\ ~DealerNatural /\ Score(dealerHand) \in DEALER_STAND..BLACKJACK) =>
       \A i \in Players :
          isBusted(hands[i]) =>
             /\ Gain("playerLosses", i) = 1
             /\ DealerWinsGain >= 1
             /\ Gain("playerTies", i) = 0
             /\ Gain("playerBlackjacks", i) = 0
             /\ DealerBlackjacksGain = 0

\* The settlement cascade as the specification words it, first match wins.
Branch(i) ==
    IF Score(hands[i]) > BLACKJACK THEN "busted"
    ELSE IF PlayerNatural(i) THEN "natural"
    ELSE IF Score(dealerHand) > Score(hands[i]) THEN "dealerHigher"
    ELSE IF Score(hands[i]) > Score(dealerHand) THEN "playerHigher"
    ELSE "equal"

\* <<wins, losses, ties, blackjacks>> a branch adds to the player's ledger.
BranchGain(b) ==
    CASE b = "busted" -> <<0, 1, 0, 0>>
      [] b = "natural" -> <<1, 0, 0, 1>>
      [] b = "dealerHigher" -> <<0, 1, 0, 0>>
      [] b = "playerHigher" -> <<1, 0, 0, 0>>
      [] b = "equal" -> <<0, 0, 1, 0>>

LedgerGain(i) ==
    <<Gain("playerWins", i), Gain("playerLosses", i),
      Gain("playerTies", i), Gain("playerBlackjacks", i)>>

C7_DealerBust ==
    (RoundSettled /\ isBusted(dealerHand)) =>
       /\ \A i \in Players :
             IF isBusted(hands[i])
             THEN Gain("playerLosses", i) = 1 /\ Gain("playerWins", i) = 0
             ELSE Gain("playerWins", i) = 1
       /\ DealerWinsGain = 1

\* C7 witness: the dealer busted against a natural, a standing hand and a
\* busted hand.
C7_Witness ==
    /\ RoundSettled /\ isBusted(dealerHand)
    /\ \E i, j, k \in Players :
          /\ PlayerNatural(i)
          /\ isBusted(hands[j])
          /\ ~isBusted(hands[k]) /\ ~PlayerNatural(k)

\* C8: once the dealer's turn is entered the round proceeds to settlement.
C8_DealerTurnTerminates == (pc = "dealerTurn") ~> (pc = "determineWinner")

\* The hand as it was before its last card was added.
BeforeLastCard(h) ==
    [numCards |-> h.numCards - 1,
     card |-> [h.card EXCEPT ![h.numCards] = EmptyCard]]

\* C9: every card the dealer holds beyond the initial two was added when the
\* dealer's score was below 17, and a round that was not settled early is
\* settled with the dealer's score at 17 or more.
C9_DealerStandsAt17 ==
    hands # <<>> =>
       /\ dealerHand.numCards > STARTING_CARDS =>
             Score(BeforeLastCard(dealerHand)) < DEALER_STAND
       /\ (pc \in {"determineWinner", "collectCards"} /\ ~shouldEndRoundEarly(stats)) =>
             Score(dealerHand) >= DEALER_STAND

\* C9 witness: a round settled with the dealer standing on a soft 17 drawn
\* to in the dealer's turn.
C9_Witness ==
    /\ RoundSettled /\ ~shouldEndRoundEarly(stats)
    /\ dealerHand.numCards > STARTING_CARDS
    /\ Score(dealerHand) = DEALER_STAND
    /\ \E k \in 1..dealerHand.numCards : dealerHand.card[k].rank = "A"

\* Cards hand j holds once k cards were dealt one at a time in the order
\* player 1..player n, dealer, player 1..
DealtTo(j, k, n) == (k + n + 1 - j) \div (n + 1)

\* C10: the initial deal hands out one card at a time in the order
\* player 1..n, dealer, player 1..n, dealer, 2 cards to every participant,
\* and until all 2(n+1) cards are dealt nothing else happens: no natural
\* check, no decision, no ledger update.
C10_InitialDeal ==
    hands # <<>> =>
       /\ pc = "dealCards" =>
             /\ dealt < STARTING_CARDS * (numPlayers + 1)
             /\ \A j \in 1..Dealer : hands[j].numCards = DealtTo(j, dealt, numPlayers)
       /\ (\E j \in 1..Dealer : hands[j].numCards < STARTING_CARDS) =>
             /\ pc = "dealCards"
             /\ stats = roundBase
             /\ currentCard = dealt
       /\ pc = "checkBlackjack" =>
             /\ \A j \in 1..Dealer : hands[j].numCards = STARTING_CARDS
             /\ currentCard = STARTING_CARDS * (numPlayers + 1)
             /\ stats = roundBase

\* C10 witness: three players, the second pass of the deal has reached
\* player 2.
C10_Witness ==
    /\ pc = "dealCards" /\ numPlayers = MAX_PLAYER_COUNT
    /\ dealt = numPlayers + 2
    /\ hands[1].numCards = 2 /\ hands[2].numCards = 1 /\ hands[Dealer].numCards = 1

\* The first two cards of a hand: the hand as the initial deal left it.
InitialDeal(h) ==
    [numCards |-> STARTING_CARDS,
     card |-> [k \in 1..MAX_HAND_SIZE |->
                  IF k <= STARTING_CARDS THEN h.card[k] ELSE EmptyCard]]

\* C11: during the players' turns the hand offered a decision is a player's
\* hand that holds no natural and is not bust; a player dealt a natural
\* keeps exactly 2 cards; and no card is ever added to a hand that was
\* already bust.
C11_NoDecisionAfterNaturalOrBust ==
    hands # <<>> =>
       /\ pc = "hitOrStand" =>
             /\ turn \in Players
             /\ ~isBlackjack(hands[turn])
             /\ ~isBusted(hands[turn])
       /\ \A i \in Players :
             /\ (hands[i].numCards >= STARTING_CARDS /\ isBlackjack(InitialDeal(hands[i])))
                   => hands[i].numCards = STARTING_CARDS
             /\ hands[i].numCards > STARTING_CARDS
                   => ~isBusted(BeforeLastCard(hands[i]))

\* C11 witness: three players; player 1 holds a natural and 2 cards, player
\* 2 busted on a hit, and the decision is now offered to player 3.
C11_Witness ==
    /\ pc = "hitOrStand" /\ numPlayers = MAX_PLAYER_COUNT /\ turn = 3
    /\ isBlackjack(hands[1])
    /\ isBusted(hands[2]) /\ hands[2].numCards = STARTING_CARDS + 1

\* C12: every hit draws one card from the shoe and adds it to the hand of
\* the player who hit: a step from the prompt that moves the shoe's cursor
\* leaves that hand with exactly one more card.
C12_HitAddsTheCardDrawn ==
    [][(pc = "hitOrStand" /\ currentCard' # currentCard)
          => hands'[turn].numCards = hands[turn].numCards + 1]_vars

\* The round is one checkBlackjack settles early: the dealer was dealt a
\* natural and no player was.
DealtEarlyEnd ==
    /\ isBlackjack(InitialDeal(dealerHand))
    /\ \A i \in Players : ~isBlackjack(InitialDeal(hands[i]))

C13_DealerTurnReached ==
    /\ pc = "dealerTurn" /\ dealerHand.numCards > STARTING_CARDS
    /\ \E i \in Players : hands[i].numCards > STARTING_CARDS

\* C14: a hand holds up to 11 cards: of the cards offered to a hand through
\* addCardToHand the first 11 are appended and every later one is dropped.
C14_HandHoldsElevenCards ==
    pc = "hand" =>
       hands[1].numCards = (IF dealt <= MAX_HAND_SIZE THEN dealt ELSE MAX_HAND_SIZE)

\* The ranks a hand holds, in the order they were added.
HeldRanks(h) == [k \in 1..h.numCards |-> h.card[k].rank]

\* The points of a rank by the rules of the game, the ace counted low:
\* number cards at face value, T, J, Q and K at 10.
LowValue(r) ==
    IF r = "A" THEN 1
    ELSE IF r \in {"T", "J", "Q", "K"} THEN 10
    ELSE CHOOSE n \in 2..9 : ToString(n) = r

RECURSIVE LowTotal(_)
LowTotal(ranks) ==
    IF ranks = <<>> THEN 0 ELSE LowValue(Head(ranks)) + LowTotal(Tail(ranks))

AceCount(ranks) == Cardinality({k \in DOMAIN ranks : ranks[k] = "A"})

\* Every total the hand can be counted at: each ace at 1 or at 11.
Totals(ranks) == {LowTotal(ranks) + 10 * k : k \in 0..AceCount(ranks)}

\* The best score: the highest total of at most 21 if there is one, else
\* the smallest total.
BestScore(ranks) ==
    LET T == Totals(ranks)
        good == {t \in T : t <= 21}
    IN  IF good # {}
        THEN CHOOSE t \in good : \A u \in good : u <= t
        ELSE CHOOSE t \in T : \A u \in T : t <= u

\* C15: the score of every hand is the best score of the cards it holds
\* (aces downgraded from 11 to 1 one at a time, only while the total is
\* over 21); two aces score 12 and five aces score 15.
C15_ScoreIsBestScore ==
    pc = "hand" =>
       LET h == hands[1]
       IN  /\ evaluateHandScore(h) = BestScore(HeldRanks(h))
           /\ HeldRanks(h) = <<"A", "A">> => evaluateHandScore(h) = 12
           /\ HeldRanks(h) = <<"A", "A", "A", "A", "A">> => evaluateHandScore(h) = 15

\* C15 witness: a hand of five aces, scored 15 with one ace still high.
C15_Witness ==
    /\ pc = "hand"
    /\ HeldRanks(hands[1]) = <<"A", "A", "A", "A", "A">>
    /\ evaluateHandScore(hands[1]) = 15
    /\ ~isBusted(hands[1])

\* C15 second witness: a hand with no total of 21 or less, scored at its
\* smallest total, every ace low.
C15_BustWithAces ==
    /\ pc = "hand"
    /\ HeldRanks(hands[1]) = <<"K", "9", "A", "A", "A">>
    /\ evaluateHandScore(hands[1]) = 22
    /\ isBusted(hands[1])

\* The hand addCardToHand leaves when it is given the cards of the given
\* ranks (10 at most) in that order: card k in slot k.
HandOf(ranks) ==
    [numCards |-> Len(ranks),
     card |-> [k \in 1..MAX_HAND_SIZE |->
                  IF k <= Len(ranks) THEN ShoeCard(ranks[k]) ELSE EmptyCard]]

\* The permutations of 1..n.
Perms(n) == Permutations(1..n)

\* The hand with its cards in the order f: the hand the same cards leave
\* when card f[k] is added as the k-th.
Permuted(h, f) ==
    [h EXCEPT !.card = [k \in 1..MAX_HAND_SIZE |->
                           IF k <= h.numCards THEN h.card[f[k]] ELSE EmptyCard]]

\* The hand with the cards of slots i and i + 1 exchanged: the hand the
\* same cards leave when those two are added in the other order.
Exchanged(h, i) ==
    [h EXCEPT !.card = [@ EXCEPT ![i] = h.card[i + 1], ![i + 1] = h.card[i]]]

\* C16: the score depends only on the cards held, not on the order they
\* were added in: the hand built from the same cards with two neighbours
\* exchanged scores the same, for every hand (every permutation is a chain
\* of such exchanges); and so does the hand built in any permuted order,
\* for hands of up to MaxHandLen cards.
C16_ScoreIgnoresOrder ==
    pc = "hand" =>
       LET score == evaluateHandScore(hands[1])
       IN  /\ HandOf(HeldRanks(hands[1])) = hands[1]
           /\ \A i \in 1..(hands[1].numCards - 1) :
                 evaluateHandScore(Exchanged(hands[1], i)) = score
           /\ hands[1].numCards <= MaxHandLen =>
                 \A f \in Perms(hands[1].numCards) :
                    evaluateHandScore(Permuted(hands[1], f)) = score

\* C16 witness: the hand A, K, 5 scores 16, as does K, 5, A, where the ace
\* comes last.
C16_Witness ==
    /\ pc = "hand"
    /\ HeldRanks(hands[1]) = <<"A", "K", "5">>
    /\ evaluateHandScore(hands[1]) = 16
    /\ \E f \in Perms(3) :
          /\ Permuted(hands[1], f) = HandOf(<<"K", "5", "A">>)
          /\ evaluateHandScore(Permuted(hands[1], f)) = 16

\* The two cards are an ace and a ten-valued card, in either order.
AceAndTen(ranks) ==
    /\ Len(ranks) = 2
    /\ \E i, j \in 1..2 : i # j /\ ranks[i] = "A" /\ ranks[j] \in {"T", "J", "Q", "K"}

\* C17: isBlackjack is true exactly of the hands of exactly 2 cards whose
\* best score is 21 (an ace and a ten-valued card), so A, K is a natural and
\* 7, 7, 7 (21 with three cards) is not; isBusted is true exactly of the
\* hands whose best score is over 21 (over 21 with every ace low).
C17_NaturalAndBust ==
    pc = "hand" =>
       LET h == hands[1]
           ranks == HeldRanks(h)
       IN  /\ isBlackjack(h) <=> (h.numCards = 2 /\ BestScore(ranks) = 21)
           /\ isBlackjack(h) <=> AceAndTen(ranks)
           /\ isBusted(h) <=> BestScore(ranks) > 21
           /\ isBusted(h) <=> LowTotal(ranks) > 21
           /\ ranks = <<"A", "K">> => isBlackjack(h)
           /\ ranks = <<"7", "7", "7">> => ~isBlackjack(h)

\* C17 witness: the hand 7, 7, 7: three cards, score 21, no natural and not
\* bust.
C17_Witness ==
    /\ pc = "hand"
    /\ HeldRanks(hands[1]) = <<"7", "7", "7">>
    /\ evaluateHandScore(hands[1]) = 21
    /\ ~isBlackjack(hands[1])
    /\ ~isBusted(hands[1])

\* C17 second witness: the natural A, K.
C17_NaturalReached ==
    /\ pc = "hand"
    /\ HeldRanks(hands[1]) = <<"A", "K">>
    /\ isBlackjack(hands[1])

\* How often the card c is in the array cs.
Copies(cs, c) == Cardinality({k \in DOMAIN cs : cs[k] = c})

\* The (rank, suit) pairs of a deck of the ranks rs in the suit symbols syms.
Pairs(rs, syms) == {[rank |-> rs[k], suit |-> sy] : k \in DOMAIN rs, sy \in syms}

\* The array cs holds exactly n copies of each pair of P and nothing else.
HoldsDecks(cs, n, P) ==
    /\ Len(cs) = n * Cardinality(P)
    /\ \A c \in P : Copies(cs, c) = n

\* The shoe of the program as initializeDecks fills it: 312 cards, 6 copies
\* of each of the 52 pairs of the 13 ranks and the 4 suit symbols.
FullShoeHoldsSixDecks ==
    /\ Cardinality(Pairs(cardRanks, {"club", "diamond", "heart", "spade"})) = 52
    /\ HoldsDecks(initializeDecks(NUMBER_OF_DECKS, suits, cardRanks), 6,
                  Pairs(cardRanks, {"club", "diamond", "heart", "spade"}))

\* C18: the shoe always holds exactly deckCount copies of each (rank, suit)
\* pair of a deck: initializeDecks produces that multiset (6 copies of each
\* of the 52 pairs for the program's shoe, 2 copies of each of 3 pairs for
\* the shoe of the study), and the constructor's shuffle, every draw, every
\* threshold reshuffle and every end-of-round collect of the study keep it.
C18_ShoeHoldsItsDecks ==
    pc \in {"drawCardFromShoe", "collectCards", "playAgain"} =>
       /\ FullShoeHoldsSixDecks
       /\ HoldsDecks(StudyShoe, 2, Pairs(StudyRanks, {"club", "heart", "spade"}))
       /\ HoldsDecks(cards, 2, Pairs(StudyRanks, {"club", "heart", "spade"}))

\* C18 witness: a round of the study has drawn one card more than the shoe
\* holds, through a threshold reshuffle, and the array is in another order
\* than initializeDecks left it in.
C18_Witness ==
    /\ pc = "drawCardFromShoe"
    /\ dealt = Len(cards) + 1
    /\ currentCard < dealt
    /\ drawn = cards[currentCard]
    /\ cards # StudyShoe

\* The cursor rule at the size of the program's shoe: a draw entered with
\* the cursor at 237 (312 - 75) or more leaves it at 1, any other draw one
\* further.
CursorRule ==
    /\ ShoeSize - RESHUFFLE_THRESHOLD = 237
    /\ \A cur \in 0..ShoeSize :
          drawCardFromShoe(cur) = (IF cur >= 237 THEN 1 ELSE cur + 1)

\* The arrays hold the same cards, each as often.
SameCards(cs, ds) ==
    /\ Len(cs) = Len(ds)
    /\ \A k \in DOMAIN cs : Copies(cs, cs[k]) = Copies(ds, cs[k])

\* C19: a draw entered with the cursor at totalCards - reshuffleThreshold or
\* more reshuffles the whole shoe, returns the card then at index 0 and
\* leaves the cursor at 1; a draw entered with a smaller cursor returns the
\* card at the cursor, advances the cursor by exactly 1 and leaves the order
\* of the cards unchanged.
C19_DrawAndThreshold ==
    [][(pc = "drawCardFromShoe" /\ pc' = "drawCardFromShoe") =>
          /\ CursorRule
          /\ IF currentCard >= Len(cards) - StudyThreshold
             THEN /\ currentCard' = 1
                  /\ drawn' = cards'[1]
                  /\ SameCards(cards', cards)
             ELSE /\ currentCard' = currentCard + 1
                  /\ drawn' = cards[currentCard + 1]
                  /\ cards' = cards]_vars

\* C19 witness: the draw entered with the cursor at the threshold has
\* returned: the cursor is 1 and the card returned is the one at index 0.
C19_Witness ==
    /\ pc = "drawCardFromShoe"
    /\ dealt = Len(cards) - StudyThreshold + 1
    /\ currentCard = 1
    /\ drawn = cards[1]

\* C20 as the specification words it: ending a round does not touch the
\* shoe: collectCards leaves the cursor and the order of the cards as the
\* round's last draw left them.
C20_EndOfRoundKeepsShoe ==
    [][pc = "collectCards" => (currentCard' = currentCard /\ cards' = cards)]_vars

\* C20, amended: ending a round clears the hands, resets the shoe's cursor
\* to 0 and reshuffles the whole shoe (the same cards, in any order), so
\* every round starts drawing at index 0 of a freshly shuffled shoe.
C20_EndOfRoundResetsShoe ==
    [][pc = "collectCards" =>
          /\ currentCard' = 0
          /\ SameCards(cards', cards)
          /\ hands' = <<>>
          /\ pc' = "playAgain"]_vars

\* C20 witness: a round of the study that drew cards has ended: the cursor
\* is back at 0 and the card now on top is not the one the round drew
\* last.
C20_Witness ==
    /\ pc = "playAgain"
    /\ drawn # EmptyCard
    /\ currentCard = 0
    /\ cards[1] # drawn
    /\ hands = <<>>

\* A card with a rank and a suit: drawFromShoe adds it to the hand and does
\* not print "No more cards to deal".
WellFormed(c) == c.rank # "" /\ c.suit # ""

\* C21: the shoe never signals exhaustion: whatever was drawn and collected
\* before, the next draw does not take the "no more cards" branch, reads its
\* card at an index below the shoe's length and returns a card with a rank
\* and a suit, as did the last draw.
C21_NeverExhausted ==
    pc \in {"drawCardFromShoe", "collectCards", "playAgain"} =>
       /\ drawn # EmptyCard => WellFormed(drawn)
       /\ \A d \in drawCard(cards, currentCard, StudyThreshold) :
             /\ d.branch # "exhausted"
             /\ d.currentCard - 1 < Len(d.cards)
             /\ WellFormed(d.card)
             /\ d.card = d.cards[d.currentCard]

\* C21 witness: more cards were drawn in a round than the shoe holds, and
\* the last one is a card with a rank and a suit.
C21_Witness ==
    /\ pc = "drawCardFromShoe"
    /\ dealt > Len(cards)
    /\ WellFormed(drawn)
    /\ currentCard <= Len(cards) - StudyThreshold

\* C22: the shoe's cursor is always between 0 and the length of the shoe,
\* 312: after construction, after every draw, every threshold reshuffle and
\* every end-of-round collect.
C22_CursorInShoe ==
    /\ ShoeSize = 312
    /\ currentCard \in 0..ShoeSize

\* C22 witness: the dealer's loop has drawn up to the threshold: the cursor
\* is at 312 - 75, the largest value it takes, and the next draw
\* reshuffles.
C22_Witness ==
    /\ pc = "dealerTurn"
    /\ currentCard = ShoeSize - RESHUFFLE_THRESHOLD
    /\ dealerDraws(dealerHand)
    /\ drawCardFromShoe(currentCard) = 1

\* C23: every completed round, settled early or after the turns, adds
\* exactly 1 to totalRounds and ends with no hand holding a card;
\* totalRounds changes in no other step than determineWinner's.
C23_RoundsCounted ==
    [][/\ stats'.totalRounds # stats.totalRounds => pc = "determineWinner"
       /\ pc = "determineWinner" => stats'.totalRounds = stats.totalRounds + 1
       /\ pc = "collectCards" =>
             /\ stats.totalRounds = roundBase.totalRounds + 1
             /\ hands' = <<>>
             /\ stats' = stats
       /\ pc = "playRound" =>
             /\ stats'.totalRounds = roundBase'.totalRounds
             /\ \A j \in DOMAIN hands' : hands'[j].numCards = 0]_vars

\* C23 witness: a second round, settled early on the dealer's natural, is
\* counted: totalRounds is 2 and one more than at the round's start.
C23_Witness ==
    /\ pc = "collectCards"
    /\ DealtEarlyEnd
    /\ stats.totalRounds = 2
    /\ roundBase.totalRounds = 1

\* C23 second witness: a round played through the turns is counted.
C23_AfterTurns ==
    /\ pc = "collectCards"
    /\ dealerHand.numCards > STARTING_CARDS
    /\ stats.totalRounds = roundBase.totalRounds + 1

PlayerCounters == {"playerWins", "playerLosses", "playerTies", "playerBlackjacks"}

DealerCounters == {"dealerWins", "dealerBlackjacks", "totalRounds"}

\* C24: no step decrements or resets a ledger counter: each of playerWins[i],
\* playerLosses[i], playerTies[i], playerBlackjacks[i], dealerWins,
\* dealerBlackjacks and totalRounds is at least what it was before the step.
C24_CountersNeverDecrease ==
    [][/\ \A f \in PlayerCounters : \A i \in Players : stats'[f][i] >= stats[f][i]
       /\ \A f \in DealerCounters : stats'[f] >= stats[f]
       /\ DOMAIN stats' = DOMAIN stats]_vars

\* C24 witness: a second round has been settled on top of a first one: the
\* first round's push is still counted after the second round's loss.
C24_Witness ==
    /\ pc = "collectCards"
    /\ stats.totalRounds = 2
    /\ stats.playerTies[1] >= 1
    /\ roundBase.playerTies[1] = stats.playerTies[1]
    /\ stats.playerLosses[1] > roundBase.playerLosses[1]

\* collectCards, the body of the loop of lines 312-314: the count is set to
\* 0 and the card array is left as it is.
ResetCount(h) == [h EXCEPT !.numCards = 0]

\* A hand that is given cards, collected and given cards again.
HoldCard == hands[1].numCards < MaxHandLen /\ AddCard(Ranks)

CollectHand ==
    /\ pc = "hand"
    /\ dealt <= MAX_HAND_SIZE
    /\ hands[1].numCards > 0
    /\ hands' = <<ResetCount(hands[1])>>
    /\ dealt' = dealt + 1
    /\ UNCHANGED <<numPlayers, stats, currentCard, pc, turn, roundBase, cards, drawn, decision>>

NextCollect == HoldCard \/ CollectHand

SpecCollect == InitHand /\ [][NextCollect]_vars

\* C25: the score of a hand is the score of its first numCards cards: a
\* hand whose count was reset to 0 scores 0, and cards left in the array
\* beyond numCards add nothing.
C25_ScoreOfCountedCards ==
    pc = "hand" =>
       LET h == hands[1]
       IN  /\ evaluateHandScore(h) = BestScore(HeldRanks(h))
           /\ h.numCards = 0 => evaluateHandScore(h) = 0

\* A session of one player who answers "hit" to every prompt; the program
\* keeps running, and the shoe keeps giving tens as well as aces.
NextHitter ==
    \/ StartRound
    \/ DealCard(Ranks)
    \/ CheckBlackjack
    \/ Hit(Ranks, AnyHits)
    \/ DealerDraw(Ranks)
    \/ DealerStand
    \/ DetermineWinner
    \/ CollectCards
    \/ Quit

SpecHitter ==
    /\ InitSolo
    /\ [][NextHitter]_vars
    /\ WF_vars(NextHitter)
    /\ WF_vars(Hit({"K"}, AnyHits))

\* C26: a player who keeps hitting cannot hit forever: whatever the shoe
\* gives, a turn that has begun ends with the player's hand bust.
C26_HitterBusts ==
    (pc = "hitOrStand") ~> (pc = "dealerTurn" /\ isBusted(hands[1]))

\* The calls of shuffleDecks, statement by statement. pc names the statement
\* the caller is at: "drawShuffled" is line 81 of drawCardFromShoe (the
\* shuffle of line 80 has returned), "collectReset" is line 316 of
\* collectCards (the cursor was reset by line 315).

\* A shuffleDecks that also resets the cursor.
ShuffleDecksResets(from, to) ==
    /\ pc = from
    /\ cards' \in shuffleDecks(cards)
    /\ currentCard' = 0
    /\ pc' = to
    /\ UNCHANGED <<numPlayers, stats, hands, dealt, turn, roundBase, drawn, decision>>

\* Shoe::shuffleDecks called at statement from, returning to statement to:
\* the cards are swapped, currentCard is not written.
ShuffleDecks(from, to) ==
    /\ pc = from
    /\ cards' \in shuffleDecks(cards)
    /\ pc' = to
    /\ UNCHANGED <<numPlayers, stats, currentCard, hands, dealt, turn, roundBase, drawn, decision>>

\* drawCardFromShoe, lines 85-86.
DrawBelowThreshold ==
    /\ pc = "drawCardFromShoe"
    /\ currentCard < Len(cards) - StudyThreshold
    /\ LET d == NextCard(cards, currentCard)
       IN  currentCard' = d.currentCard /\ drawn' = d.card
    /\ UNCHANGED <<numPlayers, stats, hands, pc, dealt, turn, roundBase, cards, decision>>

\* drawCardFromShoe, lines 79-80.
DrawShuffle ==
    /\ currentCard >= Len(cards) - StudyThreshold
    /\ ShuffleDecks("drawCardFromShoe", "drawShuffled")

\* drawCardFromShoe, lines 81-82.
DrawFirst ==
    /\ pc = "drawShuffled"
    /\ currentCard' = 1
    /\ drawn' = cards[1]
    /\ pc' = "drawCardFromShoe"
    /\ UNCHANGED <<numPlayers, stats, hands, dealt, turn, roundBase, cards, decision>>

\* collectCards, line 315.
CollectReset ==
    /\ pc = "collectCards"
    /\ currentCard' = 0
    /\ pc' = "collectReset"
    /\ UNCHANGED <<numPlayers, stats, hands, dealt, turn, roundBase, cards, drawn, decision>>

\* collectCards, line 316.
CollectShuffle == ShuffleDecks("collectReset", "playAgain")

NextShuffle ==
    \/ DrawBelowThreshold
    \/ DrawShuffle
    \/ DrawFirst
    \/ RoundOver
    \/ CollectReset
    \/ CollectShuffle
    \/ NextRound

SpecShuffle == InitShoe /\ [][NextShuffle]_vars

\* The step is a call of shuffleDecks.
ShuffleStep ==
    \/ pc = "drawCardFromShoe" /\ pc' = "drawShuffled"
    \/ pc = "collectReset" /\ pc' = "playAgain"

\* C27 as stated: shuffleDecks itself resets the cursor: whatever the cursor
\* was, it is 0 when shuffleDecks returns.
C27_ShuffleResetsCursor ==
    [][ShuffleStep => currentCard' = 0]_vars

\* C27 amended: shuffleDecks permutes the cards and leaves the cursor where
\* it was; the reset is its callers': collectCards resets the cursor before
\* the call, drawCardFromShoe after it, so that the draw that follows a
\* shuffle takes the first card.
C27_CallersResetCursor ==
    [][/\ ShuffleStep => currentCard' = currentCard /\ SameCards(cards', cards)
       /\ pc = "drawShuffled" => currentCard' = 1 /\ drawn' = cards[1]
       /\ pc = "collectCards" => currentCard' = 0
       /\ pc' = "playAgain" => currentCard' = 0]_vars

\* C27 witness: shuffleDecks has returned inside drawCardFromShoe and the
\* cursor is still at the threshold, mid-shoe.
C27_Witness ==
    /\ pc = "drawShuffled"
    /\ currentCard = Len(cards) - StudyThreshold
    /\ currentCard > 0
    /\ cards # StudyShoe

\* The input of getUserDecision. A token is the sequence of its characters;
\* <<>> is what decision holds when the read fails (end of input).
Tokens ==
    { <<"h", "i", "t">>, <<"H", "I", "T">>, <<"H", "i", "t">>,
      <<"s", "t", "a", "n", "d">>, <<"S", "T", "A", "N", "D">>,
      <<"s", "t", "a", "n", "D">>,
      <<>>, <<"h">>, <<"S">>, <<"h", "i", "t", "s">>, <<"s", "t", "a", "n">>,
      <<"h", "1", "t">>, <<"2">> }

\* tolower that leaves every character as it is: the comparison of line 218
\* becomes case-sensitive.
tolowerKeepsCase(ch) == ch

\* std::tolower on the characters of the tokens (C locale).
tolower(ch) ==
    CASE ch = "H" -> "h"
      [] ch = "I" -> "i"
      [] ch = "T" -> "t"
      [] ch = "S" -> "s"
      [] ch = "A" -> "a"
      [] ch = "N" -> "n"
      [] ch = "D" -> "d"
      [] OTHER -> ch

\* getUserDecision, lines 215-217: the token in lower case.
Lowered(token) == [k \in DOMAIN token |-> tolower(token[k])]

\* getUserDecision, line 218.
ValidDecision(d) == d = <<"h", "i", "t">> \/ d = <<"s", "t", "a", "n", "d">>

\* getUserDecision, lines 212-223, one pass of the loop on a token that is
\* neither hit nor stand: the message is printed, the rest of the line is
\* discarded and the same hand is prompted again.
InvalidDecision ==
    /\ pc = "hitOrStand"
    /\ \E token \in Tokens :
          /\ ~ValidDecision(Lowered(token))
          /\ decision' = token
    /\ UNCHANGED <<numPlayers, stats, currentCard, hands, pc, dealt, turn, roundBase, cards, drawn>>

\* getUserDecision returns "hit": hitOrStand lines 240-245.
HitDecision(RS, limit) ==
    /\ \E token \in Tokens :
          /\ Lowered(token) = <<"h", "i", "t">>
          /\ decision' = token
    /\ HitCard(RS, limit)

\* getUserDecision returns "stand": hitOrStand lines 246-247.
StandDecision ==
    /\ \E token \in Tokens :
          /\ Lowered(token) = <<"s", "t", "a", "n", "d">>
          /\ decision' = token
    /\ StandTurn

\* A round of two players whose answers are read token by token.
InitPrompt == InitWith({2})

NextPrompter ==
    \/ StartRound
    \/ DealCard(Ranks)
    \/ CheckBlackjack
    \/ InvalidDecision
    \/ HitDecision(Ranks, MaxHits)
    \/ StandDecision
    \/ DealerDraw(Ranks)
    \/ DealerStand
    \/ DetermineWinner
    \/ CollectCards
    \/ Quit

SpecPrompt == InitPrompt /\ [][NextPrompter]_vars

\* The token spells the word, in any mix of upper and lower case.
Spells(token, upper, lower) ==
    /\ Len(token) = Len(upper)
    /\ \A k \in DOMAIN token : token[k] \in {upper[k], lower[k]}

SaysHit(token) == Spells(token, <<"H", "I", "T">>, <<"h", "i", "t">>)

SaysStand(token) ==
    Spells(token, <<"S", "T", "A", "N", "D">>, <<"s", "t", "a", "n", "d">>)

\* C28: a token that is neither hit nor stand in any mix of case changes
\* nothing in the round: hands, cursor and ledger stay, the same player is
\* prompted again; a hit draws a card, a stand passes the turn on, and the
\* turn moves on no token other than a hit or a stand.
C28_InvalidDecisionChangesNothing ==
    [][pc = "hitOrStand" =>
         /\ (~SaysHit(decision') /\ ~SaysStand(decision')) =>
               /\ UNCHANGED <<hands, currentCard, stats, turn, pc, numPlayers, dealt>>
         /\ SaysHit(decision') =>
               /\ currentCard' = drawCardFromShoe(currentCard)
               /\ stats' = stats
               /\ \A j \in DOMAIN hands : j # turn => hands'[j] = hands[j]
               /\ turn' # turn => isBusted(hands'[turn])
         /\ SaysStand(decision') =>
               /\ UNCHANGED <<hands, currentCard, stats>>
               /\ turn' > turn]_vars

\* C28 witness: player 2 has answered "hits" and is prompted again, holding
\* the two cards of the deal, the cursor where the deal left it.
C28_Witness ==
    /\ pc = "hitOrStand"
    /\ turn = 2
    /\ decision = <<"h", "i", "t", "s">>
    /\ hands[2].numCards = STARTING_CARDS
    /\ currentCard = STARTING_CARDS * (numPlayers + 1)

\* C28 second witness: a hit typed in upper case was taken as a hit.
C28_UpperCaseHit ==
    /\ decision = <<"H", "I", "T">>
    /\ \E j \in Players : hands # <<>> /\ hands[j].numCards > STARTING_CARDS

\* Cards with no rank, no suit, or neither.
Malformed ==
    { [rank |-> "", suit |-> ""],
      [rank |-> "A", suit |-> ""],
      [rank |-> "K", suit |-> ""],
      [rank |-> "", suit |-> "spade"] }

\* One call of addCardToHand; drawn is the card the call was given.
OfferCard(C) ==
    /\ pc = "hand"
    /\ dealt <= MAX_HAND_SIZE
    /\ \E c \in C :
          /\ hands' = <<addCardToHand(hands[1], c)>>
          /\ drawn' = c
    /\ dealt' = dealt + 1
    /\ UNCHANGED <<numPlayers, stats, currentCard, pc, turn, roundBase, cards, decision>>

OfferShoeCard == hands[1].numCards < MaxHandLen /\ OfferCard(ShoeCards(Ranks))

OfferAce == OtherCards(hands[1]) < MaxHandLen /\ OfferCard(ShoeCards({"A"}))

OfferMalformed == OfferCard(Malformed)

NextOffer == OfferShoeCard \/ OfferAce \/ OfferMalformed

SpecOffer == InitHand /\ [][NextOffer]_vars

\* C29: addCardToHand given a card with an empty rank or an empty suit
\* changes nothing, whatever the hand holds: count, stored cards and score
\* stay, and the caller goes on as after any other call.
C29_MalformedCardRejected ==
    [][(pc = "hand" /\ (drawn'.rank = "" \/ drawn'.suit = "")) =>
         /\ hands'[1].numCards = hands[1].numCards
         /\ hands'[1].card = hands[1].card
         /\ evaluateHandScore(hands'[1]) = evaluateHandScore(hands[1])
         /\ dealt' = dealt + 1
         /\ pc' = "hand"]_vars

\* C29 witness: a hand holding A, K was given an ace with no suit and
\* still holds A, K.
C29_Witness ==
    /\ pc = "hand"
    /\ dealt = 3
    /\ drawn = [rank |-> "A", suit |-> ""]
    /\ HeldRanks(hands[1]) = <<"A", "K">>
    /\ evaluateHandScore(hands[1]) = 21

\* C29 second witness: a hand of ten cards was given a card with no rank.
C29_FullHand ==
    /\ pc = "hand"
    /\ drawn = [rank |-> "", suit |-> "spade"]
    /\ hands[1].numCards = MAX_HAND_SIZE - 1
    /\ dealt = MAX_HAND_SIZE

\* A shoe of eights: 16 in the deal, so that the dealer draws, and 24 on
\* the third card.
TableRanks == <<"8">>

TableShoe == initializeDecks(2, StudySuits, TableRanks)

\* A round of one player played from the array of a shoe.
InitTable ==
    /\ numPlayers = 1
    /\ stats = GameStats(numPlayers)
    /\ currentCard = 0
    /\ cards \in shuffleDecks(TableShoe)
    /\ drawn = EmptyCard
    /\ decision = <<>>
    /\ hands = <<>>
    /\ pc = "playRound"
    /\ dealt = 0
    /\ turn = 0
    /\ roundBase = stats

\* hand.addCardToHand(deck.drawCardFromShoe()) for the hand at index h:
\* drawFromShoe lines 119-121, hitOrStand line 241, playRound line 341.
DrawInto(h) ==
    \E d \in drawCard(cards, currentCard, StudyThreshold) :
       /\ cards' = d.cards
       /\ currentCard' = d.currentCard
       /\ drawn' = d.card
       /\ hands' = [hands EXCEPT ![h] = addCardToHand(@, d.card)]

\* dealCards: one pass of the inner loop.
TableDeal ==
    /\ pc = "dealCards"
    /\ DrawInto(DealTarget(dealt, numPlayers))
    /\ dealt' = dealt + 1
    /\ pc' = IF dealt + 1 = STARTING_CARDS * (numPlayers + 1)
             THEN "checkBlackjack" ELSE "dealCards"
    /\ UNCHANGED <<numPlayers, stats, turn, roundBase, decision>>

\* hitOrStand, lines 240-245: the decision is "hit".
TableHit ==
    /\ pc = "hitOrStand"
    /\ HitsTaken(hands, 1) < MaxHits
    /\ DrawInto(turn)
    /\ IF evaluateHandScore(hands'[turn]) > BLACKJACK
       THEN /\ pc' = AfterTurn(hands', turn + 1)
            /\ turn' = NextPrompt(hands', turn + 1)
       ELSE /\ pc' = "hitOrStand"
            /\ turn' = turn
    /\ UNCHANGED <<numPlayers, stats, dealt, roundBase, decision>>

\* playRound lines 340-342: one pass of the dealer's loop.
TableDealerDraw ==
    /\ pc = "dealerTurn"
    /\ dealerDraws(dealerHand)
    /\ DrawInto(Dealer)
    /\ UNCHANGED <<numPlayers, stats, pc, dealt, turn, roundBase, decision>>

NextTable ==
    \/ StartRound
    \/ TableDeal
    \/ CheckBlackjack
    \/ TableHit
    \/ Stand
    \/ TableDealerDraw
    \/ DealerStand
    \/ DetermineWinner
    \/ CollectCards
    \/ Quit

SpecTable == InitTable /\ [][NextTable]_vars

\* The cards the hands hold, all hands together, that are the pair c.
HeldCopies(c) ==
    LET held(j) == Cardinality({k \in 1..hands[j].numCards : hands[j].card[k] = c})
        RECURSIVE Sum(_)
        Sum(j) == IF j = 0 THEN 0 ELSE held(j) + Sum(j - 1)
    IN  Sum(Len(hands))

\* C30: the cards held across all hands fit one shoe: of every (rank, suit)
\* pair the hands hold together no more copies than the shoe has (its number
\* of decks), also after a threshold reshuffle in the middle of a round.
C30_HandsFitOneShoe ==
    \A k \in DOMAIN cards : HeldCopies(cards[k]) <= Copies(cards, cards[k])

\* C30, the case at the program's constants (312 cards, threshold 75): the
\* player's hand is full and not bust, further hits have taken the cursor
\* through the threshold reshuffle, the player stood and the dealer has
\* drawn from the reshuffled shoe: the hands hold more cards than were
\* drawn since the shuffle.
C30_ReshuffleInPlay ==
    /\ pc = "dealerTurn"
    /\ hands[1].numCards = MAX_HAND_SIZE - 1
    /\ ~isBusted(hands[1])
    /\ dealerHand.numCards > STARTING_CARDS
    /\ currentCard < hands[1].numCards + dealerHand.numCards

\* The first two cards of hand h are an ace and a ten-valued card.
DealtNatural(h) == AceAndTen(<<h.card[1].rank, h.card[2].rank>>)

AfterCheck == pc \in {"hitOrStand", "dealerTurn", "determineWinner", "collectCards"}

\* C31: once the blackjack check of a round is done, playerBlackjack[i] says
\* whether the two cards player i was dealt in this round are a natural, for
\* every player of the round, with or without a natural of the dealer and
\* whatever the flags of earlier rounds were; dealerBlackjack says the same
\* of the dealer's two cards.
C31_FlagsOfThisRound ==
    AfterCheck =>
       /\ DOMAIN stats.playerBlackjack = Players
       /\ \A i \in Players : stats.playerBlackjack[i] = DealtNatural(hands[i])
       /\ stats.dealerBlackjack = DealtNatural(dealerHand)

\* C31 witness: a second round in which the dealer holds a natural and the
\* player, who held one in the first round, does not: the flag was lowered.
C31_Witness ==
    /\ pc = "determineWinner"
    /\ stats.totalRounds = 1
    /\ roundBase.playerBlackjack[1]
    /\ ~stats.playerBlackjack[1]
    /\ stats.dealerBlackjack
    /\ ~DealtNatural(hands[1])

\* C31 second witness: the dealer's flag of the first round was lowered and
\* a player's flag raised, in a round played through the turns.
C31_DealerFlagLowered ==
    /\ pc = "collectCards"
    /\ roundBase.dealerBlackjack
    /\ ~stats.dealerBlackjack
    /\ \E i \in Players : stats.playerBlackjack[i] /\ ~roundBase.playerBlackjack[i]

\* C32: a blackjack is credited only together with a win: playerBlackjacks[i]
\* never exceeds playerWins[i], and within a round it grows, by no more than
\* the wins grow, only for a player whose two dealt cards are a natural
\* while the dealer's are not.
C32_BlackjackOnlyWithWin ==
    /\ \A i \in Players : stats.playerBlackjacks[i] <= stats.playerWins[i]
    /\ \A i \in Players :
          /\ Gain("playerBlackjacks", i) >= 0
          /\ Gain("playerBlackjacks", i) <= Gain("playerWins", i)
          /\ Gain("playerBlackjacks", i) > 0 =>
                /\ hands # <<>>
                /\ DealtNatural(hands[i])
                /\ ~DealtNatural(dealerHand)

\* C32 witness: in the second round of a session the player's natural
\* against a dealer without one has been credited, with a win.
C32_Witness ==
    /\ pc = "collectCards"
    /\ stats.totalRounds = 2
    /\ Gain("playerBlackjacks", 1) = 1
    /\ Gain("playerWins", 1) >= 1
    /\ DealtNatural(hands[1])
    /\ ~DealtNatural(dealerHand)

\* C32 second witness: player and dealer both hold a natural; the round is
\* settled and no blackjack is credited.
C32_PushNotCredited ==
    /\ pc = "collectCards"
    /\ \E i \in Players :
          /\ DealtNatural(hands[i])
          /\ DealtNatural(dealerHand)
          /\ Gain("playerBlackjacks", i) = 0

=============================================================================
